---- MODULE Spec2Model ----
(***************************************************************************)
(* The panels-counter viewer: marks placed on an uploaded image, a single  *)
(* selection that turns the tool attributes into a live patch target, and  *)
(* the CSV count report.                                                   *)
(*                                                                         *)
(* Two versions of the Viewer component are modelled.  The general-form    *)
(* viewer has thickness, section and selection; the reduced-form viewer    *)
(* has colour only and removes a mark when it is clicked.  Both keep their *)
(* state in React hooks of the same names, so they share the variables;    *)
(* the definitions of the reduced-form viewer carry the suffix R, and the  *)
(* handlers whose code is the same in both versions are shared.            *)
(*                                                                         *)
(* Numbers.  zoom is kept in tenths (zoom = 10 is the factor 1.0), so the  *)
(* step 0.1 is 1 and the floor 0.2 is 2.  Coordinates are exact rationals  *)
(* <<numerator, denominator>> in lowest terms.                             *)
(***************************************************************************)
EXTENDS Integers, Sequences, FiniteSets, TLC

VARIABLES
    imageSrc,        \* null, or <<data URL>> of the decoded image
    zoom,            \* zoom factor in tenths
    addPointMode,    \* BOOLEAN
    pointColor,      \* tool attribute: a colour key
    pointThickness,  \* tool attribute: null or <<20|30|40|50>>
    pointSection,    \* tool attribute: a SectionType (null in the reduced form)
    marks,           \* the ordered mark collection
    selectedMarkId,  \* null or <<id>>
    colorDefs,       \* the colour registry: sequence of [color, label]
    nextId,          \* the ids 1..nextId-1 have been handed out (crypto.randomUUID)
    csv              \* the lines the last event handed to the download link; <<>> if none

vars == <<imageSrc, zoom, addPointMode, pointColor, pointThickness, pointSection,
          marks, selectedMarkId, colorDefs, nextId, csv>>

-----------------------------------------------------------------------------
(* Bounds of the model *)

\* Number of marks created in one behaviour (ids handed out).
MaxIds == 2
\* Zoom levels explored: within this many steps of the initial zoom.
MaxZoomSteps == 1
\* Number of marks in a collection given to the report.
MaxLen == 3

(* Values the inputs are drawn from *)

ColorInputs == {"red", "blue"}
ThicknessInputs == {"none", "20"}
SectionInputs == {"whole", "half-vertical"}
FileTypeInputs == {"image/png", "application/pdf"}
LabelInputs == {"Crimson"}
LabelColorInputs == {"red"}
\* Pointer positions <<clientX, clientY>> and the image's viewport origin <<left, top>>.
PointerInputs == {<<0, 0>>}
RectInputs == {<<0, 0>>}

-----------------------------------------------------------------------------
(* Values *)

null == <<>>
Some(v) == <<v>>

\* type Thickness = 20 | 30 | 40 | 50
Thickness == {20, 30, 40, 50}
\* type SectionType
SectionType == {"whole", "half-vertical", "half-horizontal"}

\* Faulty variant of Number: the number shown first in the option's text
\* ("2 (20mm)") instead of the option's value.
NumberFromText(v) == CASE v = "20" -> 2 [] v = "30" -> 3 [] v = "40" -> 4 [] v = "50" -> 5

\* Number(v) on the values of the thickness select.
Number(v) == CASE v = "20" -> 20 [] v = "30" -> 30 [] v = "40" -> 40 [] v = "50" -> 50

InitialZoom == 10
ZoomStep == 1
ZoomFloor == 2

Max(a, b) == IF a >= b THEN a ELSE b
Abs(a) == IF a < 0 THEN -a ELSE a

RECURSIVE GCD(_, _)
GCD(a, b) == IF b = 0 THEN a ELSE GCD(b, a % b)

\* The rational n / d (d > 0) in lowest terms.
Frac(n, d) == LET g == GCD(Abs(n), d) IN <<n \div g, d \div g>>

\* Faulty variant of toImageSpace: the click is multiplied by the zoom factor.
toImageSpaceScaledUp(click, z) == Frac(click * z, 10)

\* clickX / zoom, with zoom in tenths.
toImageSpace(click, z) == Frac(click * 10, z)

\* (pointer - origin) / zoom for a pointer position that is no whole pixel:
\* clickX = e.clientX - rect.left; realX = clickX / zoom.
realX(clientX, left, z) == Frac((clientX[1] - left * clientX[2]) * 10, clientX[2] * z)

\* Faulty variant of toScreenSpace: the position is cut to whole pixels.
toScreenSpaceWholePixels(coord, z) == <<(coord[1] * z) \div (coord[2] * 10), 1>>

\* left: m.x * zoom (top: m.y * zoom), with zoom in tenths.
toScreenSpace(coord, z) == Frac(coord[1] * z, coord[2] * 10)

\* The registry the general-form viewer starts with.
InitialColorDefs ==
    << [color |-> "red", label |-> "Red"],
       [color |-> "yellow", label |-> "Yellow"],
       [color |-> "green", label |-> "Green"],
       [color |-> "cyan", label |-> "Cyan"],
       [color |-> "magenta", label |-> "Magenta"],
       [color |-> "orange", label |-> "Orange"],
       [color |-> "blue", label |-> "Blue"],
       [color |-> "purple", label |-> "Purple"],
       [color |-> "teal", label |-> "Teal"],
       [color |-> "pink", label |-> "Pink"],
       [color |-> "gold", label |-> "Gold"],
       [color |-> "dodgerblue", label |-> "Dodger Blue"] >>

\* Faulty variant of InitialColorDefsR: the third key is the colour's name,
\* not the value the select offers.
InitialColorDefsRGreenKey ==
    << [color |-> "red", label |-> "Red"],
       [color |-> "yellow", label |-> "Yellow"],
       [color |-> "green", label |-> "Green"],
       [color |-> "cyan", label |-> "Cyan"],
       [color |-> "magenta", label |-> "Magenta"],
       [color |-> "white", label |-> "White"],
       [color |-> "black", label |-> "Black"] >>

\* The registry the reduced-form viewer starts with.
InitialColorDefsR ==
    << [color |-> "red", label |-> "Red"],
       [color |-> "yellow", label |-> "Yellow"],
       [color |-> "lime", label |-> "Green"],
       [color |-> "cyan", label |-> "Cyan"],
       [color |-> "magenta", label |-> "Magenta"],
       [color |-> "white", label |-> "White"],
       [color |-> "black", label |-> "Black"] >>

-----------------------------------------------------------------------------
(* Mark store helpers: the updater functions passed to setMarks *)

\* Faulty variant of patchColor: the patch is applied to every mark.
patchColorAll(prev, id, newColor) ==
    [i \in DOMAIN prev |-> [prev[i] EXCEPT !.color = newColor]]

\* prev.map((m) => m.id === selectedMarkId ? { ...m, color: newColor } : m)
patchColor(prev, id, newColor) ==
    [i \in DOMAIN prev |->
        IF Some(prev[i].id) = id THEN [prev[i] EXCEPT !.color = newColor] ELSE prev[i]]

\* prev.map((m) => m.id === selectedMarkId ? { ...m, thickness: newThickness } : m)
patchThickness(prev, id, newThickness) ==
    [i \in DOMAIN prev |->
        IF Some(prev[i].id) = id THEN [prev[i] EXCEPT !.thickness = newThickness]
        ELSE prev[i]]

\* prev.map((m) => m.id === selectedMarkId ? { ...m, section: newSection } : m)
patchSection(prev, id, newSection) ==
    [i \in DOMAIN prev |->
        IF Some(prev[i].id) = id THEN [prev[i] EXCEPT !.section = newSection] ELSE prev[i]]

\* Faulty variant of removeById: the oldest mark is dropped, whatever its id.
removeFirst(prev, id) == IF prev = <<>> THEN prev ELSE Tail(prev)

\* prev.filter((m) => m.id !== id)
removeById(prev, id) == SelectSeq(prev, LAMBDA m : Some(m.id) # id)

-----------------------------------------------------------------------------
(* Handlers of the general-form viewer *)

\* The toolbar and the canvas are rendered only once an image is loaded.
ToolbarRendered == imageSrc # null

handleFile(fileType) ==
    /\ IF fileType \in {"image/png", "image/jpg", "image/jpeg"}
       THEN imageSrc' = Some("dataURL")
       ELSE UNCHANGED imageSrc
    /\ csv' = <<>>
    /\ UNCHANGED <<zoom, addPointMode, pointColor, pointThickness, pointSection,
                   marks, selectedMarkId, colorDefs, nextId>>

\* Faulty variant of zoomIn: the marks are rescaled so that they stay where
\* they were on the screen.
zoomInKeepsScreenPosition ==
    /\ ToolbarRendered
    /\ zoom' = zoom + ZoomStep
    /\ marks' = [i \in DOMAIN marks |->
                    [marks[i] EXCEPT !.x = Frac(@[1] * zoom, @[2] * (zoom + ZoomStep)),
                                     !.y = Frac(@[1] * zoom, @[2] * (zoom + ZoomStep))]]
    /\ csv' = <<>>
    /\ UNCHANGED <<imageSrc, addPointMode, pointColor, pointThickness, pointSection,
                   selectedMarkId, colorDefs, nextId>>

zoomIn ==
    /\ ToolbarRendered
    /\ zoom' = zoom + ZoomStep
    /\ csv' = <<>>
    /\ UNCHANGED <<imageSrc, addPointMode, pointColor, pointThickness, pointSection,
                   marks, selectedMarkId, colorDefs, nextId>>

\* Faulty variant of zoomOut: the floor is left out.
zoomOutNoFloor ==
    /\ ToolbarRendered
    /\ zoom' = zoom - ZoomStep
    /\ csv' = <<>>
    /\ UNCHANGED <<imageSrc, addPointMode, pointColor, pointThickness, pointSection,
                   marks, selectedMarkId, colorDefs, nextId>>

zoomOut ==
    /\ ToolbarRendered
    /\ zoom' = Max(ZoomFloor, zoom - ZoomStep)
    /\ csv' = <<>>
    /\ UNCHANGED <<imageSrc, addPointMode, pointColor, pointThickness, pointSection,
                   marks, selectedMarkId, colorDefs, nextId>>

\* Faulty variant of toggleAddPointMode: the selection survives entering add
\* mode (the reduced-form toggle, which knows no selection).
toggleAddPointModeKeepsSelection ==
    /\ ToolbarRendered
    /\ addPointMode' = ~addPointMode
    /\ csv' = <<>>
    /\ UNCHANGED <<imageSrc, zoom, pointColor, pointThickness, pointSection,
                   marks, selectedMarkId, colorDefs, nextId>>

\* The Add Point button: entering add mode clears the selection.
toggleAddPointMode ==
    /\ ToolbarRendered
    /\ LET next == ~addPointMode IN
        /\ addPointMode' = next
        /\ selectedMarkId' = IF next THEN null ELSE selectedMarkId
    /\ csv' = <<>>
    /\ UNCHANGED <<imageSrc, zoom, pointColor, pointThickness, pointSection,
                   marks, colorDefs, nextId>>

onColorChange(newColor) ==
    /\ ToolbarRendered
    /\ pointColor' = newColor
    /\ marks' = IF selectedMarkId # null
                THEN patchColor(marks, selectedMarkId, newColor)
                ELSE marks
    /\ csv' = <<>>
    /\ UNCHANGED <<imageSrc, zoom, addPointMode, pointThickness, pointSection,
                   selectedMarkId, colorDefs, nextId>>

onThicknessChange(v) ==
    /\ ToolbarRendered
    /\ LET newThickness == IF v = "none" THEN null ELSE Some(Number(v)) IN
        /\ pointThickness' = newThickness
        /\ marks' = IF selectedMarkId # null
                    THEN patchThickness(marks, selectedMarkId, newThickness)
                    ELSE marks
    /\ csv' = <<>>
    /\ UNCHANGED <<imageSrc, zoom, addPointMode, pointColor, pointSection,
                   selectedMarkId, colorDefs, nextId>>

\* Faulty variant of onSectionChange: with nothing selected the new section is
\* written to every mark.
onSectionChangeUnguarded(newSection) ==
    /\ ToolbarRendered
    /\ pointSection' = newSection
    /\ marks' = IF selectedMarkId # null
                THEN patchSection(marks, selectedMarkId, newSection)
                ELSE [i \in DOMAIN marks |-> [marks[i] EXCEPT !.section = newSection]]
    /\ csv' = <<>>
    /\ UNCHANGED <<imageSrc, zoom, addPointMode, pointColor, pointThickness,
                   selectedMarkId, colorDefs, nextId>>

onSectionChange(newSection) ==
    /\ ToolbarRendered
    /\ pointSection' = newSection
    /\ marks' = IF selectedMarkId # null
                THEN patchSection(marks, selectedMarkId, newSection)
                ELSE marks
    /\ csv' = <<>>
    /\ UNCHANGED <<imageSrc, zoom, addPointMode, pointColor, pointThickness,
                   selectedMarkId, colorDefs, nextId>>

\* Faulty variant of deleteSelected: with nothing selected the newest mark goes.
deleteSelectedDropsLast ==
    /\ ToolbarRendered
    /\ IF selectedMarkId = null
       THEN /\ marks' = SubSeq(marks, 1, Len(marks) - 1)
            /\ UNCHANGED selectedMarkId
       ELSE /\ marks' = removeById(marks, selectedMarkId)
            /\ selectedMarkId' = null
    /\ csv' = <<>>
    /\ UNCHANGED <<imageSrc, zoom, addPointMode, pointColor, pointThickness,
                   pointSection, colorDefs, nextId>>

deleteSelected ==
    /\ ToolbarRendered
    /\ IF selectedMarkId = null
       THEN UNCHANGED <<marks, selectedMarkId>>
       ELSE /\ marks' = removeById(marks, selectedMarkId)
            /\ selectedMarkId' = null
    /\ csv' = <<>>
    /\ UNCHANGED <<imageSrc, zoom, addPointMode, pointColor, pointThickness,
                   pointSection, colorDefs, nextId>>

\* The Delete Selected button's disabled attribute.
deleteSelectedDisabled == selectedMarkId = null

deleteAll ==
    /\ ToolbarRendered
    /\ marks' = <<>>
    /\ csv' = <<>>
    /\ UNCHANGED <<imageSrc, zoom, addPointMode, pointColor, pointThickness,
                   pointSection, selectedMarkId, colorDefs, nextId>>

\* Faulty variant of newMark: the id is the mark's position in the store.
newMarkIndexId(client, rect) ==
    [id |-> Len(marks) + 1,
     x |-> toImageSpace(client[1] - rect[1], zoom),
     y |-> toImageSpace(client[2] - rect[2], zoom),
     color |-> pointColor,
     thickness |-> pointThickness,
     section |-> pointSection]

\* The mark appended by a click at pointer position `client` while the image's
\* bounding rectangle starts at `rect`.
newMark(client, rect) ==
    [id |-> nextId,
     x |-> toImageSpace(client[1] - rect[1], zoom),
     y |-> toImageSpace(client[2] - rect[2], zoom),
     color |-> pointColor,
     thickness |-> pointThickness,
     section |-> pointSection]

\* Faulty variant of handleAddTickClick: the new mark becomes the selection.
handleAddTickClickSelects(client, rect) ==
    /\ addPointMode /\ imageSrc # null
    /\ marks' = Append(marks, newMark(client, rect))
    /\ nextId' = nextId + 1
    /\ selectedMarkId' = Some(nextId)

handleAddTickClick(client, rect) ==
    /\ addPointMode /\ imageSrc # null
    /\ marks' = Append(marks, newMark(client, rect))
    /\ nextId' = nextId + 1
    /\ UNCHANGED selectedMarkId

\* Faulty variant of wrapperOnClick: outside add mode the selection is kept (the
\* reduced-form wrapper, which has no handler outside add mode).
wrapperOnClickKeepsSelection(client, rect) ==
    /\ ToolbarRendered
    /\ IF addPointMode
       THEN handleAddTickClick(client, rect)
       ELSE UNCHANGED <<marks, nextId, selectedMarkId>>
    /\ csv' = <<>>
    /\ UNCHANGED <<imageSrc, zoom, addPointMode, pointColor, pointThickness,
                   pointSection, colorDefs>>

\* Faulty variant of wrapperOnClick: a mark is placed in every mode.
wrapperOnClickAlwaysAdds(client, rect) ==
    /\ ToolbarRendered
    /\ marks' = Append(marks, newMark(client, rect))
    /\ nextId' = nextId + 1
    /\ selectedMarkId' = IF addPointMode THEN selectedMarkId ELSE null
    /\ csv' = <<>>
    /\ UNCHANGED <<imageSrc, zoom, addPointMode, pointColor, pointThickness,
                   pointSection, colorDefs>>

\* A click on the canvas wrapper that no mark has stopped.
wrapperOnClick(client, rect) ==
    /\ ToolbarRendered
    /\ IF addPointMode
       THEN handleAddTickClick(client, rect)
       ELSE /\ selectedMarkId' = null
            /\ UNCHANGED <<marks, nextId>>
    /\ csv' = <<>>
    /\ UNCHANGED <<imageSrc, zoom, addPointMode, pointColor, pointThickness,
                   pointSection, colorDefs>>

\* Faulty variant of markOnClick: the mark's thickness is not loaded into the tool.
markOnClickKeepsThickness(i) ==
    /\ ToolbarRendered
    /\ i \in DOMAIN marks
    /\ IF ~addPointMode
       THEN /\ selectedMarkId' = Some(marks[i].id)
            /\ pointColor' = marks[i].color
            /\ pointSection' = marks[i].section
            /\ UNCHANGED pointThickness
       ELSE UNCHANGED <<selectedMarkId, pointColor, pointThickness, pointSection>>
    /\ csv' = <<>>
    /\ UNCHANGED <<imageSrc, zoom, addPointMode, marks, colorDefs, nextId>>

\* Faulty variant of markOnClick: a click selects only when nothing is selected.
markOnClickWhenIdle(i) ==
    /\ ToolbarRendered
    /\ i \in DOMAIN marks
    /\ IF ~addPointMode /\ selectedMarkId = null
       THEN /\ selectedMarkId' = Some(marks[i].id)
            /\ pointColor' = marks[i].color
            /\ pointThickness' = marks[i].thickness
            /\ pointSection' = marks[i].section
       ELSE UNCHANGED <<selectedMarkId, pointColor, pointThickness, pointSection>>
    /\ csv' = <<>>
    /\ UNCHANGED <<imageSrc, zoom, addPointMode, marks, colorDefs, nextId>>

\* Faulty variant of markOnClick: the add-mode test is missing.
markOnClickInAddMode(i) ==
    /\ ToolbarRendered
    /\ i \in DOMAIN marks
    /\ selectedMarkId' = Some(marks[i].id)
    /\ pointColor' = marks[i].color
    /\ pointThickness' = marks[i].thickness
    /\ pointSection' = marks[i].section
    /\ csv' = <<>>
    /\ UNCHANGED <<imageSrc, zoom, addPointMode, marks, colorDefs, nextId>>

\* A click on the i-th mark; the handler stops propagation.
markOnClick(i) ==
    /\ ToolbarRendered
    /\ i \in DOMAIN marks
    /\ IF ~addPointMode
       THEN /\ selectedMarkId' = Some(marks[i].id)
            /\ pointColor' = marks[i].color
            /\ pointThickness' = marks[i].thickness
            /\ pointSection' = marks[i].section
       ELSE UNCHANGED <<selectedMarkId, pointColor, pointThickness, pointSection>>
    /\ csv' = <<>>
    /\ UNCHANGED <<imageSrc, zoom, addPointMode, marks, colorDefs, nextId>>

\* Faulty variant of relabel: the entry is found by its label, not by its key.
relabelByLabel(prev, color, newName) ==
    [i \in DOMAIN prev |->
        IF prev[i].color = color \/ prev[i].label = newName
        THEN [prev[i] EXCEPT !.label = newName, !.color = color]
        ELSE prev[i]]

\* prev.map((c) => (c.color === color ? { ...c, label: newName } : c))
relabel(prev, color, newName) ==
    [i \in DOMAIN prev |->
        IF prev[i].color = color THEN [prev[i] EXCEPT !.label = newName] ELSE prev[i]]

updateColorLabel(color, newName) ==
    /\ colorDefs' = relabel(colorDefs, color, newName)
    /\ csv' = <<>>
    /\ UNCHANGED <<imageSrc, zoom, addPointMode, pointColor, pointThickness,
                   pointSection, marks, selectedMarkId, nextId>>

-----------------------------------------------------------------------------
(* The report of the general-form viewer *)

\* `${m.thickness ?? "none"}`
thicknessKey(thickness) == IF thickness = null THEN "none" ELSE ToString(thickness[1])

\* Faulty variant of markKey: the thickness is left out of the key.
markKeyColorOnly(m) == <<m.color, "none">>

\* The key `${m.color}|${m.thickness ?? "none"}`, kept as the pair that
\* key.split("|") recovers (no colour key and no thickness holds a "|").
markKey(m) == <<m.color, thicknessKey(m.thickness)>>

newCounts(key) == [key |-> key, whole |-> 0, halfVertical |-> 0, halfHorizontal |-> 0]

\* Faulty variant of countSection: both kinds of half go to the same bucket.
countSectionOneHalfBucket(entry, section) ==
    IF section = "whole" THEN [entry EXCEPT !.whole = @ + 1]
    ELSE [entry EXCEPT !.halfVertical = @ + 1]

\* The section branch of countMarks: one bucket of the entry goes up by one.
countSection(entry, section) ==
    IF section = "whole" THEN [entry EXCEPT !.whole = @ + 1]
    ELSE IF section = "half-vertical" THEN [entry EXCEPT !.halfVertical = @ + 1]
    ELSE IF section = "half-horizontal" THEN [entry EXCEPT !.halfHorizontal = @ + 1]
    ELSE entry

\* The loop of countMarks.  counts is the object being built, as the sequence
\* of its entries in insertion order (the order Object.entries walks them in:
\* no key is an integer index).
RECURSIVE countMarksLoop(_, _)
countMarksLoop(ms, counts) ==
    IF ms = <<>> THEN counts
    ELSE LET m == Head(ms)
             key == markKey(m)
             withKey == IF \E i \in DOMAIN counts : counts[i].key = key
                        THEN counts
                        ELSE Append(counts, newCounts(key))
             k == CHOOSE i \in DOMAIN withKey : withKey[i].key = key
         IN countMarksLoop(Tail(ms), [withKey EXCEPT ![k] = countSection(@, m.section)])

countMarks(ms) == countMarksLoop(ms, <<>>)

\* Math.ceil(n / 2) for a count n.
ceilHalf(n) == (n + 1) \div 2

\* colorDefs.find((c) => c.color === color)?.label ?? color
labelOf(defs, color) ==
    IF \E i \in DOMAIN defs : defs[i].color = color
    THEN defs[CHOOSE i \in DOMAIN defs :
                /\ defs[i].color = color
                /\ \A j \in DOMAIN defs : defs[j].color = color => i <= j].label
    ELSE color

\* Faulty variant of sumOf: halves of different orientation are paired.
sumOfPairedAcross(data) == data.whole + ceilHalf(data.halfVertical + data.halfHorizontal)

sumOf(data) == data.whole + ceilHalf(data.halfVertical) + ceilHalf(data.halfHorizontal)

csvHeader ==
    <<"No", "Color Label", "Thickness (mm)", "Whole", "0.5 Vertical", "0.5 Horizontal",
      "Sum">>

\* One line of the report, as the sequence of its comma-separated fields.
csvRow(row, entry, defs) ==
    LET color == entry.key[1]
        thickness == entry.key[2]
    IN <<ToString(row),
         labelOf(defs, color),
         IF thickness = "none" THEN "" ELSE thickness,
         ToString(entry.whole),
         ToString(entry.halfVertical),
         ToString(entry.halfHorizontal),
         ToString(sumOf(entry))>>

\* The text of the report: the header line, then one line per entry of counts.
csvText(ms, defs) ==
    LET counts == countMarks(ms)
    IN <<csvHeader>> \o [row \in 1..Len(counts) |-> csvRow(row, counts[row], defs)]

generateCSVReport ==
    /\ csv' = csvText(marks, colorDefs)
    /\ UNCHANGED <<imageSrc, zoom, addPointMode, pointColor, pointThickness,
                   pointSection, marks, selectedMarkId, colorDefs, nextId>>

-----------------------------------------------------------------------------
(* The general-form viewer *)

Init ==
    /\ imageSrc = null
    /\ zoom = InitialZoom
    /\ addPointMode = FALSE
    /\ pointColor = "red"
    /\ pointThickness = null
    /\ pointSection = "whole"
    /\ marks = <<>>
    /\ selectedMarkId = null
    /\ colorDefs = InitialColorDefs
    /\ nextId = 1
    /\ csv = <<>>

\* The bounds of the model on zoom and on the number of marks created.
ZoomInBound == zoom < InitialZoom + MaxZoomSteps
ZoomOutBound == zoom > InitialZoom - MaxZoomSteps
AddBound == addPointMode => nextId <= MaxIds

Next ==
    \/ \E fileType \in FileTypeInputs : handleFile(fileType)
    \/ ZoomInBound /\ zoomIn
    \/ ZoomOutBound /\ zoomOut
    \/ toggleAddPointMode
    \/ \E newColor \in ColorInputs : onColorChange(newColor)
    \/ \E v \in ThicknessInputs : onThicknessChange(v)
    \/ \E newSection \in SectionInputs : onSectionChange(newSection)
    \/ deleteSelected
    \/ deleteAll
    \/ \E client \in PointerInputs, rect \in RectInputs :
            AddBound /\ wrapperOnClick(client, rect)
    \/ \E i \in 1..MaxIds : markOnClick(i)
    \/ \E color \in LabelColorInputs, newName \in LabelInputs :
            updateColorLabel(color, newName)

Spec == Init /\ [][Next]_vars

-----------------------------------------------------------------------------
(* The report of the general-form viewer over bounded mark collections *)

\* The attributes a mark can carry, given the inputs of the three selects.
MarkAttrs ==
    [color : ColorInputs,
     thickness : {IF v = "none" THEN null ELSE Some(Number(v)) : v \in ThicknessInputs},
     section : SectionType]

\* The collection whose i-th mark was created i-th, with attributes attrs[i].
marksOf(attrs) ==
    [i \in DOMAIN attrs |->
        [id |-> i, x |-> <<0, 1>>, y |-> <<0, 1>>, color |-> attrs[i].color,
         thickness |-> attrs[i].thickness, section |-> attrs[i].section]]

InitReport ==
    /\ imageSrc = Some("dataURL")
    /\ zoom = InitialZoom
    /\ addPointMode = FALSE
    /\ pointColor = "red"
    /\ pointThickness = null
    /\ pointSection = "whole"
    /\ \E n \in 0..MaxLen : \E attrs \in [1..n -> MarkAttrs] : marks = marksOf(attrs)
    /\ selectedMarkId = null
    /\ colorDefs \in {InitialColorDefs} \cup
            {relabel(InitialColorDefs, color, newName) :
                color \in LabelColorInputs, newName \in LabelInputs}
    /\ nextId = Len(marks) + 1
    /\ csv = <<>>

NextReport == generateCSVReport

SpecReport == InitReport /\ [][NextReport]_vars

-----------------------------------------------------------------------------
(* The reduced-form viewer: marks carry a colour only, there is no          *)
(* selection, and a click on a mark removes it.  handleFile, zoomIn,        *)
(* zoomOut, deleteAll and updateColorLabel have the same code as above.     *)

ColorInputsR == {"red", "yellow", "lime"}

toggleAddPointModeR ==
    /\ ToolbarRendered
    /\ addPointMode' = ~addPointMode
    /\ csv' = <<>>
    /\ UNCHANGED <<imageSrc, zoom, pointColor, pointThickness, pointSection,
                   marks, selectedMarkId, colorDefs, nextId>>

onColorChangeR(newColor) ==
    /\ ToolbarRendered
    /\ pointColor' = newColor
    /\ csv' = <<>>
    /\ UNCHANGED <<imageSrc, zoom, addPointMode, pointThickness, pointSection,
                   marks, selectedMarkId, colorDefs, nextId>>

\* Faulty variant of newMarkR: every mark gets the same id.
newMarkRSameId(client, rect) ==
    [id |-> 1,
     x |-> toImageSpace(client[1] - rect[1], zoom),
     y |-> toImageSpace(client[2] - rect[2], zoom),
     color |-> pointColor]

newMarkR(client, rect) ==
    [id |-> nextId,
     x |-> toImageSpace(client[1] - rect[1], zoom),
     y |-> toImageSpace(client[2] - rect[2], zoom),
     color |-> pointColor]

handleAddTickClickR(client, rect) ==
    /\ addPointMode /\ imageSrc # null
    /\ marks' = Append(marks, newMarkR(client, rect))
    /\ nextId' = nextId + 1

\* onClick={addPointMode ? handleAddTickClick : undefined}
wrapperOnClickR(client, rect) ==
    /\ ToolbarRendered
    /\ IF addPointMode
       THEN handleAddTickClickR(client, rect)
       ELSE UNCHANGED <<marks, nextId>>
    /\ csv' = <<>>
    /\ UNCHANGED <<imageSrc, zoom, addPointMode, pointColor, pointThickness,
                   pointSection, selectedMarkId, colorDefs>>

\* Faulty variant of removeMarkR: when no mark has the id, the newest mark goes.
removeMarkROrLast(prev, id) ==
    IF \E i \in DOMAIN prev : prev[i].id = id
    THEN SelectSeq(prev, LAMBDA t : t.id # id)
    ELSE SubSeq(prev, 1, Len(prev) - 1)

\* prev.filter((t) => t.id !== id)
removeMarkR(prev, id) == SelectSeq(prev, LAMBDA t : t.id # id)

\* A click on the i-th mark: the handler stops propagation and removes the mark.
markOnClickR(i) ==
    /\ ToolbarRendered
    /\ i \in DOMAIN marks
    /\ marks' = removeMarkR(marks, marks[i].id)
    /\ csv' = <<>>
    /\ UNCHANGED <<imageSrc, zoom, addPointMode, pointColor, pointThickness,
                   pointSection, selectedMarkId, colorDefs, nextId>>

\* The loop of countMarks: counts maps each colour seen so far to its count.
RECURSIVE countMarksLoopR(_, _)
countMarksLoopR(ms, counts) ==
    IF ms = <<>> THEN counts
    ELSE LET color == Head(ms).color
             old == IF color \in DOMAIN counts THEN counts[color] ELSE 0
         IN countMarksLoopR(Tail(ms),
                [c \in DOMAIN counts \cup {color} |->
                    IF c = color THEN old + 1 ELSE counts[c]])

\* Faulty variant of countMarksR: a colour seen again is not counted again.
countMarksROnce(ms) == [c \in {ms[i].color : i \in DOMAIN ms} |-> 1]

countMarksR(ms) == countMarksLoopR(ms, <<>>)

csvHeaderR == <<"No", "Label", "Count">>

\* if (markCounts[c.color] > 0): an absent colour compares as false.
hasRowR(markCounts, c) == c.color \in DOMAIN markCounts /\ markCounts[c.color] > 0

\* Faulty variant of csvRowR: the row's number is written in the Count column too.
csvRowRNumberAsCount(index, c, markCounts) ==
    <<ToString(index), c.label, ToString(index)>>

\* `${index + 1},${c.label},${markCounts[c.color] || 0}`; index counts from 1 here.
csvRowR(index, c, markCounts) ==
    <<ToString(index), c.label, ToString(markCounts[c.color])>>

RECURSIVE csvRowsR(_, _, _)
csvRowsR(defs, index, markCounts) ==
    IF index > Len(defs) THEN <<>>
    ELSE (IF hasRowR(markCounts, defs[index])
          THEN <<csvRowR(index, defs[index], markCounts)>>
          ELSE <<>>) \o csvRowsR(defs, index + 1, markCounts)

csvTextR(ms, defs) == <<csvHeaderR>> \o csvRowsR(defs, 1, countMarksR(ms))

generateCSVReportR ==
    /\ csv' = csvTextR(marks, colorDefs)
    /\ UNCHANGED <<imageSrc, zoom, addPointMode, pointColor, pointThickness,
                   pointSection, marks, selectedMarkId, colorDefs, nextId>>

InitR ==
    /\ imageSrc = null
    /\ zoom = InitialZoom
    /\ addPointMode = FALSE
    /\ pointColor = "red"
    /\ pointThickness = null
    /\ pointSection = null
    /\ marks = <<>>
    /\ selectedMarkId = null
    /\ colorDefs = InitialColorDefsR
    /\ nextId = 1
    /\ csv = <<>>

NextR ==
    \/ \E fileType \in FileTypeInputs : handleFile(fileType)
    \/ ZoomInBound /\ zoomIn
    \/ ZoomOutBound /\ zoomOut
    \/ toggleAddPointModeR
    \/ \E newColor \in ColorInputsR : onColorChangeR(newColor)
    \/ deleteAll
    \/ \E client \in PointerInputs, rect \in RectInputs :
            AddBound /\ wrapperOnClickR(client, rect)
    \/ \E i \in 1..MaxIds : markOnClickR(i)
    \/ \E color \in LabelColorInputs, newName \in LabelInputs :
            updateColorLabel(color, newName)
    \/ generateCSVReportR

SpecR == InitR /\ [][NextR]_vars

-----------------------------------------------------------------------------
(* The canvas of the general-form viewer: where a click on the wrapper can  *)
(* fall, and the coordinates the marks get at each zoom.  The tool          *)
(* attributes are those of any reachable state and stay as they are.        *)

\* The wrapper's padding in pixels (class p-2).
Padding == 8

\* naturalWidth and naturalHeight of the uploaded image.
NaturalSize == <<40, 20>>

\* The size state: set from the image when it has loaded.
size == IF imageSrc = null THEN <<0, 0>> ELSE NaturalSize

\* The wrapper's box starts at the viewport's origin and nothing is scrolled,
\* so the image starts after the padding.
CanvasRectInputs == {<<Padding, Padding>>}
\* A pointer position in the wrapper's padding and one over the image.
CanvasPointerInputs == {<<0, 0>>, <<38, 18>>}

\* The pointer is over the wrapper: the wrapper's box is the inner box of
\* size.w * zoom by size.h * zoom with the padding around it.
onWrapper(client, rect) ==
    /\ (client[1] - rect[1]) >= -Padding
    /\ (client[1] - rect[1]) * 10 <= size[1] * zoom + Padding * 10
    /\ (client[2] - rect[2]) >= -Padding
    /\ (client[2] - rect[2]) * 10 <= size[2] * zoom + Padding * 10

InitCanvas ==
    /\ imageSrc = Some("dataURL")
    /\ zoom = InitialZoom
    /\ addPointMode = FALSE
    /\ pointColor \in ColorInputs
    /\ pointThickness \in {IF v = "none" THEN null ELSE Some(Number(v)) : v \in ThicknessInputs}
    /\ pointSection \in SectionInputs
    /\ marks = <<>>
    /\ selectedMarkId = null
    /\ colorDefs = InitialColorDefs
    /\ nextId = 1
    /\ csv = <<>>

\* A click that lands on a mark goes to the mark's handler; the wrapper's
\* handler is taken here for every pointer position over the wrapper.
NextCanvas ==
    \/ \E fileType \in FileTypeInputs : handleFile(fileType)
    \/ ZoomInBound /\ zoomIn
    \/ ZoomOutBound /\ zoomOut
    \/ toggleAddPointMode
    \/ deleteSelected
    \/ deleteAll
    \/ \E client \in CanvasPointerInputs, rect \in CanvasRectInputs :
            AddBound /\ onWrapper(client, rect) /\ wrapperOnClick(client, rect)
    \/ \E i \in 1..MaxIds : markOnClick(i)

SpecCanvas == InitCanvas /\ [][NextCanvas]_vars

-----------------------------------------------------------------------------
(* Zooming in the general-form viewer: zoom out is followed down to its     *)
(* floor, and marks are placed at every zoom on the way.                    *)

\* A pointer position over the image.
ZoomPointerInputs == {<<10, 10>>}

NextZoom ==
    \/ \E fileType \in FileTypeInputs : handleFile(fileType)
    \/ ZoomInBound /\ zoomIn
    \/ zoomOut
    \/ toggleAddPointMode
    \/ \E client \in ZoomPointerInputs, rect \in CanvasRectInputs :
            AddBound /\ onWrapper(client, rect) /\ wrapperOnClick(client, rect)

SpecZoom == Init /\ [][NextZoom]_vars

-----------------------------------------------------------------------------
(* The thickness and section selects of the general-form viewer with all    *)
(* their options; the colour stays the initial one.                         *)

\* The option values of the thickness select and of the section select.
ThicknessOptions == {"none", "20", "30", "40", "50"}
SectionOptions == {"whole", "half-vertical", "half-horizontal"}

NextOptions ==
    \/ \E fileType \in FileTypeInputs : handleFile(fileType)
    \/ toggleAddPointMode
    \/ \E v \in ThicknessOptions : onThicknessChange(v)
    \/ \E newSection \in SectionOptions : onSectionChange(newSection)
    \/ deleteSelected
    \/ \E client \in PointerInputs, rect \in RectInputs :
            AddBound /\ wrapperOnClick(client, rect)
    \/ \E i \in 1..MaxIds : markOnClick(i)

SpecOptions == Init /\ [][NextOptions]_vars

-----------------------------------------------------------------------------
(* The two forms of the viewer side by side: a behaviour is a behaviour of  *)
(* the general-form viewer or a behaviour of the reduced-form viewer.       *)

\* The registry tells the two forms of the viewer apart: seven colours in the
\* reduced form, twelve in the general form.
ReducedForm == Len(colorDefs) = Len(InitialColorDefsR)

InitViewers == Init \/ InitR

NextViewers ==
    \/ ~ReducedForm /\ Next
    \/ ReducedForm /\ NextR

SpecViewers == InitViewers /\ [][NextViewers]_vars

-----------------------------------------------------------------------------
(* The colour selects of both forms with all their options.  The thickness  *)
(* and the section stay the initial ones.                                   *)

\* The option values of the colour select of the general-form viewer.
ColorOptions ==
    {"red", "yellow", "green", "cyan", "magenta", "orange", "blue", "purple", "teal",
     "pink", "gold", "dodgerblue"}
\* The option values of the colour select of the reduced-form viewer.
ColorOptionsR == {"red", "yellow", "lime", "cyan", "magenta", "white", "black"}

NextColors ==
    \/ \E fileType \in FileTypeInputs : handleFile(fileType)
    \/ \E color \in LabelColorInputs, newName \in LabelInputs :
            updateColorLabel(color, newName)
    \/ deleteAll
    \/ ~ReducedForm /\ toggleAddPointMode
    \/ ~ReducedForm /\ \E newColor \in ColorOptions : onColorChange(newColor)
    \/ ~ReducedForm /\ \E client \in PointerInputs, rect \in RectInputs :
            AddBound /\ wrapperOnClick(client, rect)
    \/ ~ReducedForm /\ \E i \in 1..MaxIds : markOnClick(i)
    \/ ReducedForm /\ toggleAddPointModeR
    \/ ReducedForm /\ \E newColor \in ColorOptionsR : onColorChangeR(newColor)
    \/ ReducedForm /\ \E client \in PointerInputs, rect \in RectInputs :
            AddBound /\ wrapperOnClickR(client, rect)
    \/ ReducedForm /\ \E i \in 1..MaxIds : markOnClickR(i)

SpecColors == InitViewers /\ [][NextColors]_vars

-----------------------------------------------------------------------------
(* The store updaters on their own.  marks is the store an updater receives *)
(* and selectedMarkId holds the id it is called with, which may be the id   *)
(* of no mark.  The stores of both forms of the viewer are drawn.           *)

StoreAttrs ==
    [color : ColorInputs,
     thickness : {IF v = "none" THEN null ELSE Some(Number(v)) : v \in ThicknessInputs},
     section : SectionInputs]

\* A reduced-form store: the i-th mark has id i and colour colors[i].
marksOfR(colors) ==
    [i \in DOMAIN colors |-> [id |-> i, x |-> <<0, 1>>, y |-> <<0, 1>>, color |-> colors[i]]]

InitStore ==
    /\ imageSrc = Some("dataURL")
    /\ zoom = InitialZoom
    /\ addPointMode = FALSE
    /\ pointColor = "red"
    /\ pointThickness = null
    /\ \/ /\ pointSection = "whole"
          /\ colorDefs = InitialColorDefs
          /\ \E n \in 0..MaxLen : \E attrs \in [1..n -> StoreAttrs] : marks = marksOf(attrs)
       \/ /\ pointSection = null
          /\ colorDefs = InitialColorDefsR
          /\ \E n \in 0..MaxLen : \E colors \in [1..n -> ColorInputsR] :
                marks = marksOfR(colors)
    /\ \E id \in 1..(MaxLen + 1) : selectedMarkId = Some(id)
    /\ nextId = MaxLen + 2
    /\ csv = <<>>

\* setMarks((prev) => prev.filter((m) => m.id !== selectedMarkId))
applyRemoveById ==
    /\ ~ReducedForm
    /\ marks' = removeById(marks, selectedMarkId)
    /\ UNCHANGED <<imageSrc, zoom, addPointMode, pointColor, pointThickness,
                   pointSection, selectedMarkId, colorDefs, nextId, csv>>

applyPatchColor(newColor) ==
    /\ ~ReducedForm
    /\ marks' = patchColor(marks, selectedMarkId, newColor)
    /\ UNCHANGED <<imageSrc, zoom, addPointMode, pointColor, pointThickness,
                   pointSection, selectedMarkId, colorDefs, nextId, csv>>

applyPatchThickness(v) ==
    /\ ~ReducedForm
    /\ marks' = patchThickness(marks, selectedMarkId,
                               IF v = "none" THEN null ELSE Some(Number(v)))
    /\ UNCHANGED <<imageSrc, zoom, addPointMode, pointColor, pointThickness,
                   pointSection, selectedMarkId, colorDefs, nextId, csv>>

applyPatchSection(newSection) ==
    /\ ~ReducedForm
    /\ marks' = patchSection(marks, selectedMarkId, newSection)
    /\ UNCHANGED <<imageSrc, zoom, addPointMode, pointColor, pointThickness,
                   pointSection, selectedMarkId, colorDefs, nextId, csv>>

\* removeMark(id) of the reduced-form viewer.
applyRemoveMarkR ==
    /\ ReducedForm
    /\ marks' = removeMarkR(marks, selectedMarkId[1])
    /\ UNCHANGED <<imageSrc, zoom, addPointMode, pointColor, pointThickness,
                   pointSection, selectedMarkId, colorDefs, nextId, csv>>

NextStore ==
    \/ applyRemoveById
    \/ \E newColor \in ColorInputs : applyPatchColor(newColor)
    \/ \E v \in ThicknessInputs : applyPatchThickness(v)
    \/ \E newSection \in SectionInputs : applyPatchSection(newSection)
    \/ applyRemoveMarkR

SpecStore == InitStore /\ [][NextStore]_vars

-----------------------------------------------------------------------------
(* The report aggregators of both forms over collections that may hold a    *)
(* mark whose colour is no key of the registry.                             *)

\* A colour key that neither registry has.
UnregisteredColor == "brown"

AggregateAttrs ==
    [color : {"red", UnregisteredColor},
     thickness : {IF v = "none" THEN null ELSE Some(Number(v)) : v \in ThicknessInputs},
     section : SectionInputs]

InitAggregate ==
    /\ imageSrc = Some("dataURL")
    /\ zoom = InitialZoom
    /\ addPointMode = FALSE
    /\ pointColor = "red"
    /\ pointThickness = null
    /\ \/ /\ pointSection = "whole"
          /\ colorDefs = InitialColorDefs
          /\ \E n \in 0..MaxLen : \E attrs \in [1..n -> AggregateAttrs] :
                marks = marksOf(attrs)
       \/ /\ pointSection = null
          /\ colorDefs = InitialColorDefsR
          /\ \E n \in 0..MaxLen : \E colors \in [1..n -> {"red", "lime", UnregisteredColor}] :
                marks = marksOfR(colors)
    /\ selectedMarkId = null
    /\ nextId = Len(marks) + 1
    /\ csv = <<>>

NextAggregate ==
    \/ ~ReducedForm /\ generateCSVReport
    \/ ReducedForm /\ generateCSVReportR

SpecAggregate == InitAggregate /\ [][NextAggregate]_vars

-----------------------------------------------------------------------------
(* Label edits in the general-form viewer: two entries can get one label,   *)
(* and a label can be sent for a key the registry does not have.            *)

RelabelColorInputs == {"red", "blue", UnregisteredColor}
RelabelInputs == {"Crimson", "Blue"}

LabelAttrs == [color : ColorInputs, thickness : {null}, section : {"whole"}]

InitLabels ==
    /\ imageSrc = Some("dataURL")
    /\ zoom = InitialZoom
    /\ addPointMode = FALSE
    /\ pointColor = "red"
    /\ pointThickness = null
    /\ pointSection = "whole"
    /\ \E n \in 0..MaxLen : \E attrs \in [1..n -> LabelAttrs] : marks = marksOf(attrs)
    /\ selectedMarkId = null
    /\ colorDefs = InitialColorDefs
    /\ nextId = Len(marks) + 1
    /\ csv = <<>>

NextLabels ==
    \/ \E color \in RelabelColorInputs, newName \in RelabelInputs :
            updateColorLabel(color, newName)
    \/ generateCSVReport

SpecLabels == InitLabels /\ [][NextLabels]_vars

-----------------------------------------------------------------------------
(* The two report aggregators over one collection and one registry.  The    *)
(* marks carry thickness and section, which the reduced-form aggregator     *)
(* does not read; their colours are keys of both registries.                *)

ProjectionAttrs ==
    [color : {"red", "cyan"},
     thickness : {IF v = "none" THEN null ELSE Some(Number(v)) : v \in ThicknessInputs},
     section : SectionType]

InitProjection ==
    /\ imageSrc = Some("dataURL")
    /\ zoom = InitialZoom
    /\ addPointMode = FALSE
    /\ pointColor = "red"
    /\ pointThickness = null
    /\ pointSection = "whole"
    /\ \E n \in 0..MaxLen : \E attrs \in [1..n -> ProjectionAttrs] : marks = marksOf(attrs)
    /\ selectedMarkId = null
    /\ colorDefs \in {InitialColorDefs, InitialColorDefsR}
    /\ nextId = Len(marks) + 1
    /\ csv = <<>>

NextProjection ==
    \/ generateCSVReport
    \/ generateCSVReportR

SpecProjection == InitProjection /\ [][NextProjection]_vars

-----------------------------------------------------------------------------
(* Reading a report back *)

\* The lines of a report after its header line.
DataRows(text) == SubSeq(text, 2, Len(text))

\* The count a decimal field stands for.
FieldNumber(field) == CHOOSE n \in 0..(MaxLen + MaxIds + 1) : ToString(n) = field

\* The registry position of a colour key.
RegistryIndex(defs, color) == CHOOSE i \in DOMAIN defs : defs[i].color = color

\* The colour key a label stands for (labels are distinct in every registry
\* the specifications reach).
ColorOfLabel(defs, label) == defs[CHOOSE i \in DOMAIN defs : defs[i].label = label].color

\* The least k with 2k >= n.
CeilOfHalf(n) == CHOOSE k \in 0..n : 2 * k >= n /\ 2 * k < n + 2

\* The Thickness column of a group: empty for the unspecified thickness.
ThicknessField(thickness) == IF thickness = null THEN "" ELSE ToString(thickness[1])

\* The (colour, thickness column) pairs carried by at least one mark.
GroupsOf(ms) == {<<ms[i].color, ThicknessField(ms[i].thickness)>> : i \in DOMAIN ms}

\* The marks of one colour, one thickness and one section.
MarksIn(ms, color, thickness, section) ==
    {i \in DOMAIN ms : /\ ms[i].color = color
                       /\ ms[i].thickness = thickness
                       /\ ms[i].section = section}

\* The thickness a key names.
ThicknessOfKey(name) ==
    IF name = "none" THEN null ELSE Some(CHOOSE t \in Thickness : ToString(t) = name)

RECURSIVE TotalCounted(_)
TotalCounted(counts) ==
    IF counts = <<>> THEN 0
    ELSE Head(counts).whole + Head(counts).halfVertical + Head(counts).halfHorizontal
         + TotalCounted(Tail(counts))

\* A mark is selected and it is in the store.
EditingPresent ==
    /\ selectedMarkId # null
    /\ \E i \in DOMAIN marks : marks[i].id = selectedMarkId[1]

MarkFields == {"id", "x", "y", "color", "thickness", "section"}

\* The step changed field `field` of the selected mark to `value` and nothing
\* else in the store.
PatchedExactly(field, value) ==
    /\ DOMAIN marks' = DOMAIN marks
    /\ \A i \in DOMAIN marks :
        IF marks[i].id = selectedMarkId[1]
        THEN /\ DOMAIN marks'[i] = MarkFields
             /\ marks'[i][field] = value
             /\ \A f \in MarkFields \ {field} : marks'[i][f] = marks[i][f]
        ELSE marks'[i] = marks[i]

-----------------------------------------------------------------------------
(* Claims *)

\* C1: Delete All, from any state, leaves the mark collection empty and leaves
\* no mark selected.
C1_DeleteAllClearsSelection ==
    [][deleteAll => (marks' = <<>> /\ selectedMarkId' = null)]_vars

\* C2: the rows of the general-form report are in registry order: a row of a
\* colour that comes later in the registry never precedes a row of a colour
\* that comes earlier.
C2_RowsInRegistryOrder ==
    csv # <<>> =>
        LET rows == DataRows(csv) IN
        \A i, j \in DOMAIN rows :
            i < j => RegistryIndex(colorDefs, ColorOfLabel(colorDefs, rows[i][2]))
                        <= RegistryIndex(colorDefs, ColorOfLabel(colorDefs, rows[j][2]))

\* C3: in every row of the general-form report, Sum is Whole plus half of the
\* 0.5 Vertical count rounded up plus half of the 0.5 Horizontal count rounded
\* up, each orientation rounded on its own.
C3_SumOfRow ==
    csv # <<>> =>
        LET rows == DataRows(csv) IN
        \A r \in DOMAIN rows :
            FieldNumber(rows[r][7]) =
                FieldNumber(rows[r][4]) + CeilOfHalf(FieldNumber(rows[r][5]))
                    + CeilOfHalf(FieldNumber(rows[r][6]))

\* A report with a row of one vertical and one horizontal half: Sum is 2.
C3_Witness ==
    /\ csv # <<>>
    /\ \E r \in DOMAIN DataRows(csv) :
        LET line == DataRows(csv)[r] IN
        line[4] = "0" /\ line[5] = "1" /\ line[6] = "1" /\ line[7] = "2"

\* C4: countMarks gives each (colour, thickness) group that has a mark exactly
\* one entry, whose three counts are the numbers of marks of that colour and
\* thickness with section whole, half-vertical and half-horizontal; every mark
\* is counted once.
C4_CountsPerGroup ==
    LET counts == countMarks(marks) IN
    /\ \A k, l \in DOMAIN counts : counts[k].key = counts[l].key => k = l
    /\ \A i \in DOMAIN marks :
        \E k \in DOMAIN counts :
            /\ counts[k].key[1] = marks[i].color
            /\ ThicknessOfKey(counts[k].key[2]) = marks[i].thickness
    /\ \A k \in DOMAIN counts :
        LET color == counts[k].key[1]
            thickness == ThicknessOfKey(counts[k].key[2])
        IN /\ counts[k].whole = Cardinality(MarksIn(marks, color, thickness, "whole"))
           /\ counts[k].halfVertical =
                Cardinality(MarksIn(marks, color, thickness, "half-vertical"))
           /\ counts[k].halfHorizontal =
                Cardinality(MarksIn(marks, color, thickness, "half-horizontal"))
    /\ TotalCounted(counts) = Len(marks)

\* The report of two vertical halves and one whole mark, all red and 20 mm.
C4_Witness ==
    /\ Len(marks) = 3
    /\ \A i \in DOMAIN marks : marks[i].color = "red" /\ marks[i].thickness = Some(20)
    /\ marks[1].section = "half-vertical"
    /\ marks[2].section = "half-vertical"
    /\ marks[3].section = "whole"
    /\ csv = <<csvHeader, <<"1", "Red", "20", "1", "2", "0", "2">>>>

\* C5: the general-form report has exactly one row for each (colour, thickness)
\* pair carried by a mark and no other row; the Thickness column is empty for
\* the unspecified thickness and for no other.
C5_OneRowPerGroup ==
    csv # <<>> =>
        LET rows == DataRows(csv) IN
        /\ Len(rows) = Cardinality(GroupsOf(marks))
        /\ {<<ColorOfLabel(colorDefs, rows[r][2]), rows[r][3]>> : r \in DOMAIN rows}
                = GroupsOf(marks)

\* A report with two rows of one colour, one without and one with a thickness.
C5_Witness ==
    /\ csv # <<>>
    /\ \E r1, r2 \in DOMAIN DataRows(csv) :
        LET rows == DataRows(csv) IN
        rows[r1][2] = rows[r2][2] /\ rows[r1][3] = "" /\ rows[r2][3] = "20"

\* The number of marks of a colour.
CountOfColor(ms, color) == Cardinality({i \in DOMAIN ms : ms[i].color = color})

\* The Label and Count columns the reduced-form report is to show.
ExpectedRowsR ==
    LET present == SelectSeq(colorDefs, LAMBDA c : CountOfColor(marks, c.color) > 0)
    IN [k \in DOMAIN present |->
            <<present[k].label, ToString(CountOfColor(marks, present[k].color))>>]

\* C6: the reduced-form report lists, in registry order, one row per registry
\* colour that has a mark, with the registry's current label and the number of
\* marks of that colour; a colour without marks has no row.
C6_ReducedReport ==
    csv # <<>> =>
        LET rows == DataRows(csv) IN
        [r \in DOMAIN rows |-> <<rows[r][2], rows[r][3]>>] = ExpectedRowsR

\* A report over a lime mark created before a red one: Red first, Yellow absent.
C6_Witness ==
    /\ Len(marks) = 2
    /\ marks[1].color = "lime" /\ marks[2].color = "red"
    /\ csv = <<csvHeaderR, <<"1", "Red", "1">>, <<"3", "Green", "1">>>>

\* C7: while add mode is on, no mark is selected.
C7_AddingExcludesEditing == addPointMode => selectedMarkId = null

\* Add mode is on over a store of two marks, and the tool still shows the
\* attributes of the first, which the second does not share.
C7_Witness ==
    /\ addPointMode
    /\ selectedMarkId = null
    /\ Len(marks) = 2
    /\ pointColor = marks[1].color /\ pointColor # marks[2].color
    /\ pointThickness = marks[1].thickness /\ pointThickness # marks[2].thickness

\* A tool-attribute change made while a mark of the store is selected.
C8_Step ==
    EditingPresent =>
        /\ \A newColor \in ColorInputs :
            onColorChange(newColor) => PatchedExactly("color", newColor)
        /\ \A v \in ThicknessInputs :
            onThicknessChange(v) =>
                PatchedExactly("thickness", IF v = "none" THEN null ELSE Some(Number(v)))
        /\ \A newSection \in SectionInputs :
            onSectionChange(newSection) => PatchedExactly("section", newSection)

\* C8: while a mark of the store is selected, a change of a tool attribute sets
\* that attribute of the selected mark and changes nothing else in the store.
C8_PatchOnlySelected == [][C8_Step]_vars

\* The selected mark differs from the other mark in all three attributes and
\* the tool shows its attributes.
C8_Witness ==
    /\ EditingPresent
    /\ Len(marks) = 2
    /\ \E i, j \in DOMAIN marks :
        /\ marks[i].id = selectedMarkId[1]
        /\ marks[i].color = "blue" /\ marks[j].color = "red"
        /\ marks[i].thickness = Some(20) /\ marks[j].thickness = null
        /\ marks[i].section = "half-vertical" /\ marks[j].section = "whole"
        /\ pointColor = "blue" /\ pointThickness = Some(20)
        /\ pointSection = "half-vertical"

\* A tool-attribute change made while nothing is selected, and the creation
\* of a mark.
C9_Step ==
    selectedMarkId = null =>
        /\ \A newColor \in ColorInputs : onColorChange(newColor) => marks' = marks
        /\ \A v \in ThicknessInputs : onThicknessChange(v) => marks' = marks
        /\ \A newSection \in SectionInputs : onSectionChange(newSection) => marks' = marks
        /\ Len(marks') = Len(marks) + 1 =>
            LET m == marks'[Len(marks')] IN
            /\ m.color = pointColor
            /\ m.thickness = pointThickness
            /\ m.section = pointSection

\* C9: while no mark is selected, a change of a tool attribute leaves the mark
\* collection unchanged; a mark created later takes the tool attributes of the
\* moment it is created.
C9_ToolChangeIsDefault == [][C9_Step]_vars

\* Nothing is selected and the tool attributes are those of no mark in the store.
C9_Witness ==
    /\ selectedMarkId = null
    /\ Len(marks) = 2
    /\ \A i \in DOMAIN marks :
        marks[i].color = "red" /\ marks[i].thickness = null /\ marks[i].section = "whole"
    /\ pointColor = "blue" /\ pointThickness = Some(20)
    /\ pointSection = "half-vertical"

\* C10: whenever a mark of the store is selected, the tool attributes are that
\* mark's colour, thickness and section.
C10_ToolMirrorsSelected ==
    EditingPresent =>
        \A i \in DOMAIN marks :
            marks[i].id = selectedMarkId[1] =>
                /\ pointColor = marks[i].color
                /\ pointThickness = marks[i].thickness
                /\ pointSection = marks[i].section

\* A mark with attributes other than the initial ones is selected, after zoom
\* and label edits.
C10_Witness ==
    /\ EditingPresent
    /\ pointColor = "blue" /\ pointThickness = Some(20)
    /\ pointSection = "half-vertical"
    /\ zoom # InitialZoom
    /\ colorDefs # InitialColorDefs

\* What a click on the i-th mark is to bring about.
C11_Selected(i) ==
    /\ selectedMarkId' = Some(marks[i].id)
    /\ pointColor' = marks[i].color
    /\ pointThickness' = marks[i].thickness
    /\ pointSection' = marks[i].section
    /\ marks' = marks
    /\ addPointMode' = FALSE

\* A click on a mark while add mode is off: the click is possible on every
\* mark on the canvas, whatever is selected, and it has the effect above.
C11_Step ==
    \A i \in 1..MaxIds :
        /\ (ToolbarRendered /\ ~addPointMode /\ i \in DOMAIN marks) =>
                ENABLED (markOnClick(i) /\ C11_Selected(i))
        /\ (~addPointMode /\ markOnClick(i)) => C11_Selected(i)

\* C11: with add mode off, a click on a mark, whether nothing or any mark was
\* selected before, selects that mark and loads its colour, thickness and
\* section into the tool attributes; no mark changes.
C11_ClickSelectsAndLoads == [][C11_Step]_vars

\* The older of two marks is selected and the tool shows its attributes, which
\* the newer mark does not share.
C11_Witness ==
    /\ ~addPointMode
    /\ Len(marks) = 2
    /\ selectedMarkId = Some(marks[1].id)
    /\ marks[1].color = "red" /\ marks[2].color = "blue"
    /\ marks[1].thickness = Some(20) /\ marks[2].thickness = null
    /\ marks[1].section = "whole" /\ marks[2].section = "half-vertical"
    /\ pointColor = "red" /\ pointThickness = Some(20) /\ pointSection = "whole"

\* What a click on the empty canvas is to bring about.
C12_Deselected ==
    /\ selectedMarkId' = null
    /\ addPointMode' = FALSE
    /\ marks' = marks

\* A click on the canvas, not on a mark, while a mark is selected: the click
\* is possible and it has the effect above.
C12_Step ==
    \A client \in PointerInputs, rect \in RectInputs :
        /\ (ToolbarRendered /\ selectedMarkId # null) =>
                ENABLED (wrapperOnClick(client, rect) /\ C12_Deselected)
        /\ (selectedMarkId # null /\ wrapperOnClick(client, rect)) => C12_Deselected

\* C12: while a mark is selected, a click on the canvas that hits no mark
\* clears the selection, leaves add mode off and leaves the marks unchanged.
C12_CanvasClickDeselects == [][C12_Step]_vars

\* Nothing is selected, add mode is off, and the tool still shows the
\* attributes of a mark of the store that are not the initial ones.
C12_Witness ==
    /\ selectedMarkId = null
    /\ ~addPointMode
    /\ Len(marks) = 2
    /\ marks[2].color = "blue" /\ marks[2].thickness = Some(20)
    /\ marks[2].section = "half-vertical"
    /\ marks[1].color = "red"
    /\ pointColor = "blue" /\ pointThickness = Some(20)
    /\ pointSection = "half-vertical"

\* The store without its k-th mark.
WithoutIndex(ms, k) == SubSeq(ms, 1, k - 1) \o SubSeq(ms, k + 1, Len(ms))

\* What Delete Selected is to bring about.
C13_Removed ==
    /\ \E k \in DOMAIN marks :
        /\ marks[k].id = selectedMarkId[1]
        /\ marks' = WithoutIndex(marks, k)
    /\ \A i \in DOMAIN marks' : marks'[i].id # selectedMarkId[1]
    /\ selectedMarkId' = null
    /\ addPointMode' = FALSE

\* Delete Selected while a mark of the store is selected: the button is
\* enabled, the deletion is possible and it has the effect above.
C13_Step ==
    /\ EditingPresent =>
            ~deleteSelectedDisabled /\ ENABLED (deleteSelected /\ C13_Removed)
    /\ (EditingPresent /\ deleteSelected) => C13_Removed

\* C13: Delete Selected, while a mark of the store is selected, removes that
\* mark and no other, keeps the others as they were and in their order, and
\* leaves nothing selected and add mode off.
C13_DeleteSelectedRemovesOne == [][C13_Step]_vars

\* The newer of two marks is the only mark left and nothing is selected.
C13_Witness ==
    /\ Len(marks) = 1
    /\ marks[1].id = 2
    /\ nextId = 3
    /\ selectedMarkId = null
    /\ ~addPointMode

\* Delete Selected while nothing is selected, and the button's disabled flag.
C14_Step ==
    /\ deleteSelectedDisabled <=> selectedMarkId = null
    /\ (selectedMarkId = null /\ deleteSelected) =>
            UNCHANGED <<marks, selectedMarkId, addPointMode, pointColor,
                        pointThickness, pointSection, zoom>>

\* C14: Delete Selected with nothing selected changes neither the marks, the
\* selection, add mode, the tool attributes nor the zoom, and the button is
\* disabled exactly when nothing is selected.
C14_DeleteSelectedNoSelection == [][C14_Step]_vars

\* Nothing is selected over a store of two marks, at a zoom other than the
\* initial one, and the button is disabled.
C14_Witness ==
    /\ deleteSelectedDisabled
    /\ selectedMarkId = null
    /\ ~addPointMode
    /\ Len(marks) = 2
    /\ zoom # InitialZoom
    /\ pointColor = "blue"

\* No mark of the store has the id.
IdAbsent(ms, id) == \A i \in DOMAIN ms : ms[i].id # id

\* An updater called with the id of no mark, and a removal.
C15_Step ==
    /\ IdAbsent(marks, selectedMarkId[1]) => marks' = marks
    /\ (applyRemoveById \/ applyRemoveMarkR) =>
            /\ IdAbsent(marks', selectedMarkId[1])
            /\ ~ReducedForm => removeById(marks', selectedMarkId) = marks'
            /\ ReducedForm => removeMarkR(marks', selectedMarkId[1]) = marks'

\* C15: a removal or a patch by an id that no mark of the store has leaves the
\* store as it is; after a removal the id is in the store no more, so a
\* second removal by the same id changes nothing.
C15_AbsentIdIsNoOp == [][C15_Step]_vars

\* The second of three marks has been removed and its id is the one the
\* updaters are called with.
C15_Witness ==
    /\ Len(marks) = 2
    /\ marks[1].id = 1 /\ marks[2].id = 3
    /\ selectedMarkId = Some(2)

\* The creation of a mark, and the removal of the mark created last.
C16_Step ==
    /\ Len(marks') = Len(marks) + 1 =>
        LET added == marks'[Len(marks')] IN
        /\ SubSeq(marks', 1, Len(marks)) = marks
        /\ IdAbsent(marks, added.id)
        /\ ReducedForm => removeMarkR(marks', added.id) = marks
        /\ ~ReducedForm => removeById(marks', Some(added.id)) = marks
    /\ (/\ marks # <<>>
        /\ marks[Len(marks)].id = nextId - 1
        /\ \/ ReducedForm /\ markOnClickR(Len(marks))
           \/ ~ReducedForm /\ selectedMarkId = Some(nextId - 1) /\ deleteSelected)
        => marks' = SubSeq(marks, 1, Len(marks) - 1)

\* C16: the creation of a mark puts it after the marks there were, under an
\* id none of them has, and the removal of that mark by its id (a click on it
\* in the reduced form, Delete Selected on it in the general form) gives back
\* exactly the marks there were, in their order.
C16_AddThenRemoveRestores == [][C16_Step]_vars

\* General form: the second mark created has been removed again and the first
\* mark is the store, as before the second was added.
C16_Witness ==
    /\ ~ReducedForm
    /\ nextId = 3
    /\ Len(marks) = 1
    /\ marks[1].id = 1
    /\ marks[1].color = "blue"
    /\ selectedMarkId = null

\* The rational q is offset / z, with z in tenths.
IsQuotient(q, offset, z) == q[2] > 0 /\ q[1] * z = offset * 10 * q[2]

\* A click on the canvas while add mode is on.
C17_Step ==
    \A client \in CanvasPointerInputs, rect \in CanvasRectInputs :
        (addPointMode /\ imageSrc # null /\ wrapperOnClick(client, rect)) =>
            /\ Len(marks') = Len(marks) + 1
            /\ SubSeq(marks', 1, Len(marks)) = marks
            /\ LET m == marks'[Len(marks')] IN
                /\ m.color = pointColor
                /\ m.thickness = pointThickness
                /\ m.section = pointSection
                /\ IsQuotient(m.x, client[1] - rect[1], zoom)
                /\ IsQuotient(m.y, client[2] - rect[2], zoom)

\* C17: with add mode on and an image loaded, a click on the canvas puts one
\* new mark after the marks there were, which stay as they are; the new mark
\* has the tool's colour, thickness and section, and its x and y are the
\* pointer's offset from the image's origin in the viewport divided by zoom.
C17_ClickAppendsMark == [][C17_Step]_vars

\* A mark placed 30 px right of and 10 px below the image's origin at zoom
\* 0.9, after a mark placed at another zoom.
C17_Witness ==
    /\ Len(marks) = 2
    /\ marks[2].x = <<100, 3>> /\ marks[2].y = <<100, 9>>
    /\ marks[1].x = <<30, 1>>
    /\ marks[2].color = "blue" /\ marks[2].thickness = Some(20)
    /\ marks[2].section = "half-vertical"
    /\ zoom = 9

\* What a click on the canvas in add mode is to bring about.
C18_StillAdding ==
    /\ addPointMode' = TRUE
    /\ selectedMarkId' = null
    /\ Len(marks') = Len(marks) + 1

\* A click on the canvas while add mode is on: the click is possible, however
\* many marks there are, and it has the effect above.
C18_Step ==
    \A client \in PointerInputs, rect \in RectInputs :
        /\ (ToolbarRendered /\ addPointMode) =>
                ENABLED (wrapperOnClick(client, rect) /\ C18_StillAdding)
        /\ (addPointMode /\ wrapperOnClick(client, rect)) => C18_StillAdding

\* C18: a click on the canvas in add mode creates a mark and leaves add mode
\* on and nothing selected, so the next click creates another mark.
C18_AddingStaysAdding == [][C18_Step]_vars

\* Two marks have been placed and add mode is still on with nothing selected.
C18_Witness ==
    /\ addPointMode
    /\ selectedMarkId = null
    /\ Len(marks) = 2
    /\ nextId = 3
    /\ marks[1].id = 1 /\ marks[2].id = 2

\* A step in which the number of marks grows.
C19_Step ==
    Len(marks') > Len(marks) =>
        /\ addPointMode
        /\ \E client \in PointerInputs, rect \in RectInputs : wrapperOnClick(client, rect)
        /\ Len(marks') = Len(marks) + 1

\* C19: the number of marks grows only in a step that is a click on the
\* canvas taken with add mode on, and then by one; no zoom, tool change,
\* selection, label edit, delete or upload adds a mark.
C19_MarksOnlyInAddMode == [][C19_Step]_vars

\* A mark made in add mode is in the store after add mode was left, a zoom
\* step, a label edit, a tool change and a selection: still one mark.
C19_Witness ==
    /\ ~addPointMode
    /\ Len(marks) = 1
    /\ nextId = 2
    /\ zoom # InitialZoom
    /\ colorDefs # InitialColorDefs
    /\ selectedMarkId = Some(1)
    /\ marks[1].color = "blue"

\* C20: every mark of the store lies inside the image: its x is between 0 and
\* the image's natural width and its y between 0 and the natural height.
C20_MarksInsideImage ==
    \A i \in DOMAIN marks :
        /\ marks[i].x[1] >= 0
        /\ marks[i].x[1] <= size[1] * marks[i].x[2]
        /\ marks[i].y[1] >= 0
        /\ marks[i].y[1] <= size[2] * marks[i].y[2]

\* The zoom buttons: zoom in is always possible and adds one step; zoom out
\* takes one step off, but not below the floor.
C21_Step ==
    /\ ToolbarRendered => ENABLED (zoomIn /\ zoom' = zoom + 1)
    /\ zoomIn => zoom' = zoom + 1
    /\ ToolbarRendered =>
            ENABLED (zoomOut /\ zoom' = (IF zoom - 1 < 2 THEN 2 ELSE zoom - 1))
    /\ zoomOut => zoom' = (IF zoom - 1 < 2 THEN 2 ELSE zoom - 1)
    /\ zoom' >= 2

\* C21: zoom starts at 1.0 (10 tenths); zoom in adds 0.1 and is never refused;
\* zoom out gives max(0.2, zoom - 0.1); so zoom is at least 0.2 in every state
\* and the coordinate transform never divides by zero or by a negative number.
C21_ZoomFloor == zoom = 10 /\ [][C21_Step]_vars /\ [](zoom >= 2 /\ zoom > 0)

\* Zoom is at its floor and a mark has been placed there: 2 px into the
\* image at zoom 0.2 is x = 10.
C21_Witness ==
    /\ zoom = 2
    /\ marks # <<>>
    /\ marks[Len(marks)].x = <<10, 1>>

\* Where the i-th mark is drawn, as offsets from the image's origin.
RenderedAt(ms, i, z) == <<toScreenSpace(ms[i].x, z), toScreenSpace(ms[i].y, z)>>

\* The rational q is the rational c times z tenths.
IsProduct(q, c, z) == q[2] > 0 /\ q[1] * c[2] * 10 = c[1] * z * q[2]

\* A zoom step.
C22_Step ==
    (zoomIn \/ zoomOut) =>
        /\ marks' = marks
        /\ UNCHANGED <<selectedMarkId, addPointMode, pointColor, pointThickness,
                       pointSection>>
        /\ \A i \in DOMAIN marks :
            /\ IsProduct(RenderedAt(marks', i, zoom')[1], marks[i].x, zoom')
            /\ IsProduct(RenderedAt(marks', i, zoom')[2], marks[i].y, zoom')

\* C22: a zoom step changes no mark (id, x, y, colour, thickness and section
\* stay), nor the selection, add mode or the tool attributes; each mark is
\* drawn at its unchanged x and y times the new zoom.
C22_ZoomKeepsMarks == [][C22_Step]_vars

\* A mark placed 30 px into the image at zoom 1.0 is selected and drawn at
\* 27 px at zoom 0.9.
C22_Witness ==
    /\ zoom = 9
    /\ marks # <<>>
    /\ marks[1].x = <<30, 1>>
    /\ RenderedAt(marks, 1, zoom) = <<<<27, 1>>, <<9, 1>>>>
    /\ selectedMarkId = Some(marks[1].id)

\* The x and y of the marks of the store.
StoredCoords == {marks[i].x : i \in DOMAIN marks} \cup {marks[i].y : i \in DOMAIN marks}

\* C23 as stated: for every zoom and every image-space coordinate c, to the
\* screen, back to the image (origin 0) and to the screen again gives c.
C23_RoundTripAsStated ==
    \A c \in StoredCoords :
        toScreenSpace(realX(toScreenSpace(c, zoom), 0, zoom), zoom) = c

\* C23, amended: for every zoom and every image-space coordinate c, to the
\* screen and back to the image (origin 0) gives c; the further step to the
\* screen gives the screen position of c, not c.
C23_RoundTrip ==
    \A c \in StoredCoords :
        /\ realX(toScreenSpace(c, zoom), 0, zoom) = c
        /\ toScreenSpace(realX(toScreenSpace(c, zoom), 0, zoom), zoom)
                = toScreenSpace(c, zoom)

\* A mark placed at x = 2 at zoom 1.0 is drawn at 0.4 px at zoom 0.2.
C23_Witness ==
    /\ zoom = 2
    /\ marks # <<>>
    /\ marks[1].x = <<2, 1>>
    /\ toScreenSpace(marks[1].x, zoom) = <<2, 5>>

\* The ids of a store, in its order.
IdsOf(ms) == [i \in DOMAIN ms |-> ms[i].id]

\* No two marks of the store have one id, and every id of the store has been
\* handed out.
C24_Unique ==
    /\ \A i, j \in DOMAIN marks : marks[i].id = marks[j].id => i = j
    /\ \A i \in DOMAIN marks : marks[i].id < nextId

\* Every step keeps the ids of the marks that stay, and a new mark gets an id
\* that was never handed out before.
C24_Step ==
    /\ nextId' >= nextId
    /\ Len(marks') = Len(marks) => IdsOf(marks') = IdsOf(marks)
    /\ Len(marks') > Len(marks) =>
        /\ SubSeq(IdsOf(marks'), 1, Len(marks)) = IdsOf(marks)
        /\ \A i \in (DOMAIN marks') \ (DOMAIN marks) :
            marks'[i].id >= nextId /\ marks'[i].id < nextId'
    /\ Len(marks') < Len(marks) =>
        \/ marks' = <<>>
        \/ \E k \in DOMAIN marks : IdsOf(marks') = IdsOf(WithoutIndex(marks, k))

\* C24: no two marks of the store have the same id; no step changes the id of
\* a mark that stays in the store; the id of a new mark is none that was
\* handed out before, so the id of a deleted mark does not come back.
C24_IdsUniqueAndStable == [](C24_Unique) /\ [][C24_Step]_vars

\* The first mark has been deleted; the second, selected and patched, has
\* kept its id.
C24_Witness ==
    /\ Len(marks) = 1
    /\ marks[1].id = 2
    /\ nextId = 3
    /\ selectedMarkId = Some(2)
    /\ marks[1].color = "blue" /\ marks[1].thickness = Some(20)

\* The values a thickness can take: one of the four, or unspecified.
ThicknessDomain == {null} \cup {Some(t) : t \in Thickness}

\* C25: every mark's thickness is 20, 30, 40, 50 or unspecified and every
\* mark's section is whole, half-vertical or half-horizontal, whether it was
\* set at creation or patched while selected; the tool attributes are in the
\* same domains.
C25_AttributeDomains ==
    /\ pointThickness \in ThicknessDomain
    /\ pointSection \in SectionType
    /\ \A i \in DOMAIN marks :
        /\ marks[i].thickness \in ThicknessDomain
        /\ marks[i].section \in SectionType

\* A mark created with 50 mm and a horizontal half, and a selected mark
\* patched to 30 mm and a vertical half.
C25_Witness ==
    /\ Len(marks) = 2
    /\ marks[1].thickness = Some(50) /\ marks[1].section = "half-horizontal"
    /\ marks[2].thickness = Some(30) /\ marks[2].section = "half-vertical"
    /\ selectedMarkId = Some(marks[2].id)
    /\ pointThickness = Some(30) /\ pointSection = "half-vertical"

\* The marks whose colour is a key of the registry.
RegisteredMarks == {i \in DOMAIN marks : \E k \in DOMAIN colorDefs : colorDefs[k].color = marks[i].color}

\* The number of marks a report's rows count, all rows together.
RECURSIVE CountedInRows(_)
CountedInRows(rows) ==
    IF rows = <<>> THEN 0
    ELSE (IF ReducedForm
          THEN FieldNumber(Head(rows)[3])
          ELSE FieldNumber(Head(rows)[4]) + FieldNumber(Head(rows)[5])
                + FieldNumber(Head(rows)[6]))
         + CountedInRows(Tail(rows))

KeysOf(defs) == [i \in DOMAIN defs |-> defs[i].color]

\* What a label edit is to bring about.
C27_Relabelled(color, newName) ==
    /\ KeysOf(colorDefs') = KeysOf(colorDefs)
    /\ \A i \in DOMAIN colorDefs :
        /\ DOMAIN colorDefs'[i] = {"color", "label"}
        /\ colorDefs'[i].label = IF colorDefs[i].color = color THEN newName
                                 ELSE colorDefs[i].label
    /\ UNCHANGED <<marks, selectedMarkId, pointColor, pointThickness, pointSection,
                   addPointMode>>

\* A label edit, and the rows of a report.
C27_Step ==
    /\ \A color \in RelabelColorInputs, newName \in RelabelInputs :
        /\ ENABLED (updateColorLabel(color, newName) /\ C27_Relabelled(color, newName))
        /\ updateColorLabel(color, newName) => C27_Relabelled(color, newName)
    /\ csv' # <<>> => Len(DataRows(csv')) = Cardinality(GroupsOf(marks'))

\* C27: a label edit sets the label of the entry whose key is the colour given
\* (of none if no entry has the key) and leaves the registry's length, order
\* and keys, the marks, the selection and the tool attributes as they were;
\* rows are grouped by key, so two entries with one label still give two rows.
C27_OnlyLabelsChange == [][C27_Step]_vars

\* Red has been given the label of blue, and the report over a red and a blue
\* mark has two rows with that label.
C27_Witness ==
    /\ colorDefs[1].color = "red" /\ colorDefs[1].label = "Blue"
    /\ colorDefs[7].color = "blue" /\ colorDefs[7].label = "Blue"
    /\ Len(csv) = 3
    /\ csv[2][2] = "Blue" /\ csv[3][2] = "Blue"

\* C28: the selection is none or names a mark of the store.
C28_SelectionValid == selectedMarkId # null => EditingPresent

\* The keys of a registry, as a set.
KeySet(defs) == {defs[i].color : i \in DOMAIN defs}

\* C29: in both forms every mark's colour, and the tool's colour, is a key of
\* the registry: the colour select offers exactly the registry's keys, and the
\* keys are those the registry started with.
C29_ColorsRegistered ==
    /\ KeysOf(colorDefs) =
            KeysOf(IF ReducedForm THEN InitialColorDefsR ELSE InitialColorDefs)
    /\ (IF ReducedForm THEN ColorOptionsR ELSE ColorOptions) = KeySet(colorDefs)
    /\ pointColor \in KeySet(colorDefs)
    /\ \A i \in DOMAIN marks : marks[i].color \in KeySet(colorDefs)

\* Reduced form, after a label edit: a mark of the third and a mark of the
\* last colour of the select.
C29_Witness ==
    /\ ReducedForm
    /\ colorDefs # InitialColorDefsR
    /\ Len(marks) = 2
    /\ marks[1].color = "lime" /\ marks[2].color = "black"

\* C30: the No column of the reduced-form report counts the emitted rows:
\* the r-th row carries the number r.
C30_ReducedRowNumbers ==
    csv # <<>> =>
        LET rows == DataRows(csv) IN
        \A r \in DOMAIN rows : rows[r][1] = ToString(r)

\* The marks the general-form rows with a label count, all rows together.
RECURSIVE TotalOfLabel(_, _)
TotalOfLabel(rows, label) ==
    IF rows = <<>> THEN 0
    ELSE (IF Head(rows)[2] = label
          THEN FieldNumber(Head(rows)[4]) + FieldNumber(Head(rows)[5])
                + FieldNumber(Head(rows)[6])
          ELSE 0)
         + TotalOfLabel(Tail(rows), label)

\* The reduced-form report is the general-form report with the rows of each
\* colour folded into one.
IsProjection(general, reduced) ==
    LET gen == DataRows(general)
        red == DataRows(reduced)
    IN \A k \in DOMAIN colorDefs :
        LET label == colorDefs[k].label
            genOf == {r \in DOMAIN gen : gen[r][2] = label}
            redOf == {r \in DOMAIN red : red[r][2] = label}
        IN /\ Cardinality(redOf) <= 1
           /\ redOf # {} <=> genOf # {}
           /\ \A r \in redOf : FieldNumber(red[r][3]) = TotalOfLabel(gen, label)

\* One report taken right after the other over the same marks and registry.
C31_Step ==
    /\ (csv # <<>> /\ csv' # <<>> /\ csv[1] = csvHeader /\ csv'[1] = csvHeaderR) =>
            IsProjection(csv, csv')
    /\ (csv # <<>> /\ csv' # <<>> /\ csv[1] = csvHeaderR /\ csv'[1] = csvHeader) =>
            IsProjection(csv', csv)

\* C31: over one collection of marks of registered colours, the reduced-form
\* Count of a colour is the total of Whole, 0.5 Vertical and 0.5 Horizontal
\* over the general-form rows of that colour, and the colour has a
\* reduced-form row exactly when it has a general-form row.
C31_ReducedIsProjection == [][C31_Step]_vars

\* The reduced-form report of three marks that the general form puts in three
\* rows: two reds of different thickness and a cyan.
C31_Witness ==
    /\ Len(marks) = 3
    /\ marks[1].color = "red" /\ marks[1].thickness = null
    /\ marks[2].color = "cyan" /\ marks[2].section = "half-horizontal"
    /\ marks[3].color = "red" /\ marks[3].thickness = Some(20)
    /\ marks[3].section = "half-vertical"
    /\ csv = <<csvHeaderR, <<"1", "Red", "2">>, <<"4", "Cyan", "1">>>>

\* A click on a mark while add mode is on changes nothing.
C32_Step ==
    \A i \in DOMAIN marks : (addPointMode /\ markOnClick(i)) => UNCHANGED vars

\* While add mode is on, every mark takes the click and leaves the state as
\* it is.
C32_Swallowed ==
    (ToolbarRendered /\ addPointMode) =>
        \A i \in DOMAIN marks : ENABLED (markOnClick(i) /\ UNCHANGED vars)

\* C32: in Adding, a click on an existing mark creates no mark, selects
\* nothing and changes no tool attribute: the whole state is unchanged.
C32_ClickOnMarkSwallowed == [][C32_Step]_vars /\ []C32_Swallowed

\* Add mode is on over two marks whose attributes differ from the tool's, and
\* a click on the first one leaves everything as it is.
C32_Witness ==
    /\ addPointMode
    /\ Len(marks) = 2
    /\ selectedMarkId = null
    /\ marks[1].color # pointColor
    /\ marks[1].section # pointSection
    /\ ENABLED (markOnClick(1) /\ UNCHANGED vars)

\* The tool attributes, and the attributes of the mark with an id in a store.
ToolAttrs == <<pointColor, pointThickness, pointSection>>

PresentIn(ms, id) == \E i \in DOMAIN ms : ms[i].id = id

AttrsIn(ms, id) ==
    LET i == CHOOSE j \in DOMAIN ms : ms[j].id = id
    IN <<ms[i].color, ms[i].thickness, ms[i].section>>

\* A step that selects a mark loads its attributes into the tool.
C33_Selects ==
    (selectedMarkId' # null /\ selectedMarkId' # selectedMarkId) =>
        /\ PresentIn(marks', selectedMarkId'[1])
        /\ ToolAttrs' = AttrsIn(marks', selectedMarkId'[1])

\* While the selection stays on mark m the tool attributes are m's last
\* attributes: those m has now, or had when it left the store.
C33_Follows ==
    (selectedMarkId # null /\ selectedMarkId' = selectedMarkId) =>
        IF PresentIn(marks', selectedMarkId[1])
        THEN ToolAttrs' = AttrsIn(marks', selectedMarkId[1])
        ELSE IF PresentIn(marks, selectedMarkId[1])
             THEN ToolAttrs' = AttrsIn(marks, selectedMarkId[1])
             ELSE ToolAttrs' = ToolAttrs

\* The step that ends the selection leaves the tool attributes as they are.
C33_Ends ==
    (selectedMarkId # null /\ selectedMarkId' = null) =>
        /\ ToolAttrs' = ToolAttrs
        /\ PresentIn(marks, selectedMarkId[1]) =>
                ToolAttrs' = AttrsIn(marks, selectedMarkId[1])

\* With nothing selected, only a tool change alters the tool attributes, and
\* a created mark carries them.
C33_Creates ==
    (selectedMarkId = null /\ selectedMarkId' = null) =>
        /\ (ToolAttrs' # ToolAttrs) => marks' = marks
        /\ (Len(marks') = Len(marks) + 1) =>
                /\ ToolAttrs' = ToolAttrs
                /\ AttrsIn(marks', marks'[Len(marks')].id) = ToolAttrs

C33_Step == C33_Selects /\ C33_Follows /\ C33_Ends /\ C33_Creates

\* C33: leaving Editing does not restore earlier creation defaults: from the
\* selection of mark m on, the tool attributes are m's last attributes, the
\* event that ends the selection (click on empty canvas, enabling add mode,
\* Delete Selected) leaves them so, and the next mark created in Adding
\* without a further tool change has m's color, thickness and section.
C33_ToolKeepsLastAttributes == [][C33_Step]_vars

====
